---- MODULE Spec2Model ----
(***************************************************************************)
(* The retail ETL pipeline: the Generator script (etl/generate_data.py)    *)
(* writes four CSV files, the Loader (etl/load_data.py, load_data_to_db)   *)
(* reads them and replaces four tables of the destination database.        *)
(*                                                                         *)
(* Money is held in units of 1/10000 of the currency unit, so a value with *)
(* two decimals is a multiple of 100.  A floating-point product is the     *)
(* exact product up to a representation error (FloatErr); round(x, 2)      *)
(* takes it to the nearest multiple of 100.                                *)
(***************************************************************************)
EXTENDS Integers, Sequences, FiniteSets, TLC

VARIABLES
    cfg,            \* the NUM_* configuration constants of the Generator
    rnd,            \* the values the random source may return in this run
    gpc,            \* Generator: position in the script
    customer_data,  \* Generator: list built by the customer loop
    store_data,     \* Generator: list built by the store loop
    product_data,   \* Generator: list built by the product loop
    sales_data,     \* Generator: list built by the sales loop
    files,          \* the data/ directory: one CSV file per entity
    lpc,            \* Loader: position in load_data_to_db
    df_products,    \* Loader: the products frame read at step 3
    db,             \* destination database: the four tables
    db0,            \* history: db when the current Loader run started
    written,        \* history: tables replaced so far by the current run
    okRuns,         \* history: completed Loader runs, counted up to 2
    firstDb         \* history: db at the end of the first completed run

gvars == <<gpc, customer_data, store_data, product_data, sales_data>>
lvars == <<lpc, df_products, db, db0, written, okRuns, firstDb>>
vars == <<cfg, rnd, gvars, files, lvars>>

----------------------------------------------------------------------------
(* Bounds of the model *)

MaxCustomers == 2
MaxStores == 2
MaxProducts == 2
MaxSales == 2

----------------------------------------------------------------------------
(* Values *)

NULL == <<>>
Some(v) == <<v>>

Min(a, b) == IF a < b THEN a ELSE b
Abs(x) == IF x < 0 THEN -x ELSE x

\* the representation error of one floating-point operation, in 1/10000
FloatErr == {-1, 0, 1}

\* x * num / den as the floating-point unit may return it
Times(x, num, den) == {(x * num) \div den + e : e \in FloatErr}

\* round(x, 2): nearest multiple of 100, a tie going to the even hundredth
Round2(x) ==
    LET q == x \div 100
        r == x % 100
    IN  IF r < 50 THEN 100 * q
        ELSE IF r > 50 THEN 100 * (q + 1)
        ELSE IF q % 2 = 0 THEN 100 * q ELSE 100 * (q + 1)

----------------------------------------------------------------------------
(* Calendar: dates as <<year, month, day>>, counted from 2022-01-01 so that  *)
(* START_DATE - 365 days is day 0                                            *)

MonthLengths ==
    <<31, 28, 31, 30, 31, 30, 31, 31, 30, 31, 30, 31,     \* 2022
      31, 28, 31, 30, 31, 30, 31, 31, 30, 31, 30, 31,     \* 2023
      31, 29, 31, 30, 31, 30, 31, 31, 30, 31, 30, 31>>    \* 2024

RECURSIVE DateFrom(_, _)
DateFrom(m, d) ==
    IF d < MonthLengths[m]
    THEN <<2022 + (m - 1) \div 12, ((m - 1) % 12) + 1, d + 1>>
    ELSE DateFrom(m + 1, d - MonthLengths[m])

RECURSIVE DaysBefore(_)
DaysBefore(m) == IF m = 1 THEN 0 ELSE DaysBefore(m - 1) + MonthLengths[m - 1]

\* days from 2022-01-01 to a date
Ordinal(date) == DaysBefore((date[1] - 2022) * 12 + date[2]) + date[3] - 1

START_DATE == <<2023, 1, 1>>
END_DATE == <<2024, 12, 31>>

\* START_DATE + timedelta(days = n), n possibly negative
PlusDays(date, n) == DateFrom(1, Ordinal(date) + n)

\* (END_DATE - START_DATE).days
RangeDays == Ordinal(END_DATE) - Ordinal(START_DATE)

\* strftime('%Y-%m-%d')
Strftime(date) == <<date[1], "-", date[2], "-", date[3]>>

----------------------------------------------------------------------------
(* Frames, files and tables *)

\* pd.DataFrame(list of dicts): the columns of the first dict, the rows
DataFrame(columns, rows) == [columns |-> columns, rows |-> rows]

CUSTOMER_COLUMNS ==
    <<"customer_id", "first_name", "last_name", "email", "city", "signup_date">>
STORE_COLUMNS == <<"store_id", "store_name", "city", "region", "manager_name">>
PRODUCT_COLUMNS ==
    <<"product_id", "product_name", "category", "brand", "unit_cost", "unit_price">>
SALES_COLUMNS ==
    <<"transaction_id", "customer_id", "product_id", "store_id", "date",
      "quantity", "unit_price", "total_amount">>

NoFile == [exists |-> FALSE, header |-> <<>>, rows |-> <<>>]

\* df.to_csv(path, index=False): a header line, then one line per row
to_csv(df) == [exists |-> TRUE, header |-> df.columns, rows |-> df.rows]

\* pd.read_csv(path) of an existing file
read_csv(file) == DataFrame(file.header, file.rows)

NoTable == [exists |-> FALSE, columns |-> <<>>, rows |-> <<>>]

\* to_sql as if_exists='append' would have it
to_sql_Append(table, df) ==
    [exists |-> TRUE, columns |-> df.columns, rows |-> table.rows \o df.rows]

\* to_sql writing only a table that is not there yet
to_sql_KeepExisting(table, df) ==
    IF table.exists THEN table
    ELSE [exists |-> TRUE, columns |-> df.columns, rows |-> df.rows]

\* df.to_sql(name, con=engine, if_exists='replace', index=False): whatever the
\* table held, it now holds the frame
to_sql(table, df) == [exists |-> TRUE, columns |-> df.columns, rows |-> df.rows]

\* what a table may hold when to_sql fails: 'replace' drops and recreates the
\* table before it inserts, and the Loader opens no transaction around the call
to_sql_failed(table, df) ==
    {table, NoTable, [exists |-> TRUE, columns |-> df.columns, rows |-> <<>>]}

----------------------------------------------------------------------------
(* Generator: generate_data.py *)

Cities == <<"New York", "Los Angeles", "Chicago", "Houston", "Phoenix">>
Regions == <<"North", "South", "East", "West">>
product_categories ==
    <<"Electronics", "Clothing", "Home & Garden", "Books", "Toys", "Sports">>

Range(seq) == {seq[k] : k \in 1..Len(seq)}

\* random.choice(seq), within the sample this run explores
Choice(seq, sample) == Range(seq) \cap sample

\* random.randint(a, b), within the sample this run explores
RandInt(a, b, sample) == {n \in sample : a <= n /\ n <= b}

\* pd.DataFrame(data) of a list of dicts: no dict, no column
FrameOf(columns, data) ==
    IF data = <<>> THEN DataFrame(<<>>, <<>>) ELSE DataFrame(columns, data)

\* the loop index as range(N) would count it
LoopIndex_FromZero(done) == done

\* the value of i in the iteration of "for i in range(1, N + 1)" that follows
\* `done` completed iterations
LoopIndex(done) == done + 1

GenStart ==
    /\ gpc = "idle"
    /\ lpc \notin {"customers", "stores", "products", "sales"}
    /\ gpc' = "customers"
    /\ customer_data' = <<>>
    /\ store_data' = <<>>
    /\ product_data' = <<>>
    /\ sales_data' = <<>>
    /\ UNCHANGED <<cfg, rnd, files, lvars>>

CustomerRow(i, city, days) ==
    [customer_id |-> i,
     first_name  |-> <<"Customer_", i>>,
     last_name   |-> <<"Lastname_", i>>,
     email       |-> <<"customer", i, "@example.com">>,
     city        |-> city,
     signup_date |-> Strftime(PlusDays(START_DATE, -days))]

GenCustomer ==
    /\ gpc = "customers"
    /\ Len(customer_data) < cfg.NUM_CUSTOMERS
    /\ \E city \in Choice(Cities, rnd.city), days \in RandInt(0, 365, rnd.signupDays) :
          customer_data' =
              Append(customer_data, CustomerRow(LoopIndex(Len(customer_data)), city, days))
    /\ UNCHANGED <<cfg, rnd, gpc, store_data, product_data, sales_data, files, lvars>>

WriteCustomers ==
    /\ gpc = "customers"
    /\ Len(customer_data) >= cfg.NUM_CUSTOMERS
    /\ files' = [files EXCEPT
                   !.customers = to_csv(FrameOf(CUSTOMER_COLUMNS, customer_data))]
    /\ gpc' = "stores"
    /\ UNCHANGED <<cfg, rnd, customer_data, store_data, product_data, sales_data, lvars>>

StoreRow(i, city, region) ==
    [store_id     |-> i,
     store_name   |-> <<"Store_", i>>,
     city         |-> city,
     region       |-> region,
     manager_name |-> <<"Manager_", i>>]

GenStore ==
    /\ gpc = "stores"
    /\ Len(store_data) < cfg.NUM_STORES
    /\ \E city \in Choice(Cities, rnd.city), region \in Choice(Regions, rnd.region) :
          store_data' = Append(store_data, StoreRow(LoopIndex(Len(store_data)), city, region))
    /\ UNCHANGED <<cfg, rnd, gpc, customer_data, product_data, sales_data, files, lvars>>

WriteStores ==
    /\ gpc = "stores"
    /\ Len(store_data) >= cfg.NUM_STORES
    /\ files' = [files EXCEPT !.stores = to_csv(FrameOf(STORE_COLUMNS, store_data))]
    /\ gpc' = "products"
    /\ UNCHANGED <<cfg, rnd, customer_data, store_data, product_data, sales_data, lvars>>

\* base_price after the category's variation; a factor is held in tenths
AdjustedPrice(category, base_price) ==
    IF category = "Electronics"
    THEN UNION {Times(base_price, f, 10) : f \in RandInt(12, 20, rnd.factor)}
    ELSE IF category = "Clothing"
    THEN UNION {Times(base_price, f, 10) : f \in RandInt(5, 15, rnd.factor)}
    ELSE {base_price}

\* the cost taken from the price before the category's variation
CostBase_BeforeVariation(base_price, adjusted) == base_price

\* the price the cost is 60% of: base_price as adjusted
CostBase(base_price, adjusted) == adjusted

ProductRow(i, category, brand, cost, base_price) ==
    [product_id   |-> i,
     product_name |-> <<"Product_", i>>,
     category     |-> category,
     brand        |-> <<"Brand_", brand>>,
     unit_cost    |-> Round2(cost),
     unit_price   |-> Round2(base_price)]

GenProduct ==
    /\ gpc = "products"
    /\ Len(product_data) < cfg.NUM_PRODUCTS
    /\ \E category \in Choice(product_categories, rnd.category),
          base \in RandInt(50000, 2000000, rnd.basePrice),
          brand \in RandInt(1, 20, rnd.brand) :
          \E base_price \in AdjustedPrice(category, base) :
             \E cost \in Times(CostBase(base, base_price), 6, 10) :
                product_data' =
                    Append(product_data,
                           ProductRow(LoopIndex(Len(product_data)), category, brand,
                                      cost, base_price))
    /\ UNCHANGED <<cfg, rnd, gpc, customer_data, store_data, sales_data, files, lvars>>

WriteProducts ==
    /\ gpc = "products"
    /\ Len(product_data) >= cfg.NUM_PRODUCTS
    /\ files' = [files EXCEPT !.products = to_csv(FrameOf(PRODUCT_COLUMNS, product_data))]
    /\ gpc' = "sales"
    /\ UNCHANGED <<cfg, rnd, customer_data, store_data, product_data, sales_data, lvars>>

\* df_products of the Generator
gen_df_products == FrameOf(PRODUCT_COLUMNS, product_data)

\* df[df['product_id'] == id]['unit_price'].iloc[0]
PriceOf(df, id) == SelectSeq(df.rows, LAMBDA r : r.product_id = id)[1].unit_price

\* the quantity drawn for a sale date: more in November and December
Quantities(sale_date) ==
    IF sale_date[2] \in {11, 12}
    THEN RandInt(1, 5, rnd.quantity)
    ELSE RandInt(1, 3, rnd.quantity)

\* product ids drawn one past the last product
ProductIds_PastEnd == RandInt(1, cfg.NUM_PRODUCTS + 1, 1..(cfg.NUM_PRODUCTS + 1))

\* the product ids a sale may reference: random.randint(1, NUM_PRODUCTS)
ProductIds == RandInt(1, cfg.NUM_PRODUCTS, 1..cfg.NUM_PRODUCTS)

\* the price taken from the product the sale references
PricedProduct_Referenced(product_id, k) == product_data[product_id]

\* the product whose price a sale takes: product_data[random.randint(0, N - 1)],
\* a draw of its own
PricedProduct(product_id, k) == product_data[k + 1]

SaleRow(txid, customer_id, product_id, store_id, sale_date, quantity, k) ==
    [transaction_id |-> txid,
     customer_id    |-> customer_id,
     product_id     |-> product_id,
     store_id       |-> store_id,
     date           |-> Strftime(sale_date),
     quantity       |-> quantity,
     unit_price     |-> PriceOf(gen_df_products, PricedProduct(product_id, k).product_id),
     total_amount   |-> 0]

GenSale ==
    /\ gpc = "sales"
    /\ Len(sales_data) < cfg.NUM_SALES
    /\ \E days \in RandInt(0, RangeDays, rnd.saleDays) :
          LET sale_date == PlusDays(START_DATE, days) IN
          \E quantity \in Quantities(sale_date),
             txid \in RandInt(100000, 999999, rnd.txid),
             customer_id \in RandInt(1, cfg.NUM_CUSTOMERS, rnd.customerId),
             product_id \in ProductIds,
             store_id \in RandInt(1, cfg.NUM_STORES, rnd.storeId),
             k \in RandInt(0, cfg.NUM_PRODUCTS - 1, 0..(cfg.NUM_PRODUCTS - 1)) :
             sales_data' =
                 Append(sales_data,
                        SaleRow(txid, customer_id, product_id, store_id,
                                sale_date, quantity, k))
    /\ UNCHANGED <<cfg, rnd, gpc, customer_data, store_data, product_data, files, lvars>>

\* total_amount without the rounding
TotalAmount_Unrounded(row, product) == product

\* total_amount of one row: (unit_price * quantity).round(2)
TotalAmount(row, product) == Round2(product)

\* the total_amount columns the first k rows may get, one representation error
\* per product
RECURSIVE TotalColumns(_, _)
TotalColumns(rows, k) ==
    IF k = 0 THEN {<<>>}
    ELSE {Append(c, TotalAmount(rows[k], p)) :
             c \in TotalColumns(rows, k - 1),
             p \in Times(rows[k].unit_price, rows[k].quantity, 1)}

\* df_sales with its total_amount column set
WithTotals(rows, totals) ==
    [k \in 1..Len(rows) |-> [rows[k] EXCEPT !.total_amount = totals[k]]]

WriteSales ==
    /\ gpc = "sales"
    /\ Len(sales_data) >= cfg.NUM_SALES
    /\ \E totals \in TotalColumns(sales_data, Len(sales_data)) :
          files' = [files EXCEPT
                      !.sales = to_csv(FrameOf(SALES_COLUMNS, WithTotals(sales_data, totals)))]
    /\ gpc' = "done"
    /\ UNCHANGED <<cfg, rnd, customer_data, store_data, product_data, sales_data, lvars>>

----------------------------------------------------------------------------
(* Loader: load_data.py, load_data_to_db *)

STEPS == <<"customers", "stores", "products", "sales">>
TABLES == <<"dim_customer", "dim_store", "dim_product", "sales_fact">>

StepNo(step) == CHOOSE k \in 1..Len(STEPS) : STEPS[k] = step

\* the table names given to the steps in reverse
TableOf_FactFirst(step) == TABLES[Len(TABLES) + 1 - StepNo(step)]

\* the table a step writes
TableOf(step) == TABLES[StepNo(step)]

Running == lpc \in Range(STEPS)

\* load_data_to_db is entered: a first run, or a run after a completed one; a
\* run that aborted is not retried.  The scripts run one at a time.
LoaderStart ==
    /\ lpc \in {"idle", "done"}
    /\ gpc \in {"idle", "done"}
    /\ lpc' = "customers"
    /\ db0' = db
    /\ written' = <<>>
    /\ df_products' = DataFrame(<<>>, <<>>)
    /\ UNCHANGED <<cfg, rnd, gvars, files, db, okRuns, firstDb>>

LoadCustomers ==
    /\ lpc = "customers"
    /\ files.customers.exists
    /\ LET df_customers == read_csv(files.customers) IN
          db' = [db EXCEPT ![TableOf("customers")] = to_sql(@, df_customers)]
    /\ written' = Append(written, TableOf("customers"))
    /\ lpc' = "stores"
    /\ UNCHANGED <<cfg, rnd, gvars, files, df_products, db0, okRuns, firstDb>>

LoadStores ==
    /\ lpc = "stores"
    /\ files.stores.exists
    /\ LET df_stores == read_csv(files.stores) IN
          db' = [db EXCEPT ![TableOf("stores")] = to_sql(@, df_stores)]
    /\ written' = Append(written, TableOf("stores"))
    /\ lpc' = "products"
    /\ UNCHANGED <<cfg, rnd, gvars, files, df_products, db0, okRuns, firstDb>>

LoadProducts ==
    /\ lpc = "products"
    /\ files.products.exists
    /\ df_products' = read_csv(files.products)
    /\ db' = [db EXCEPT ![TableOf("products")] = to_sql(@, df_products')]
    /\ written' = Append(written, TableOf("products"))
    /\ lpc' = "sales"
    /\ UNCHANGED <<cfg, rnd, gvars, files, db0, okRuns, firstDb>>

\* df[columns]: the frame cut to the named columns
Columns(df, columns) ==
    DataFrame(columns,
              [k \in 1..Len(df.rows) |-> [c \in Range(columns) |-> df.rows[k][c]]])

\* df.rename(columns={old: new})
Rename(df, old, new) ==
    LET columns == [k \in 1..Len(df.columns) |->
                       IF df.columns[k] = old THEN new ELSE df.columns[k]]
    IN  DataFrame(columns,
                  [k \in 1..Len(df.rows) |->
                      [c \in Range(columns) |-> df.rows[k][IF c = new THEN old ELSE c]]])

\* the rows a left row yields under how='inner'
MergedRows_Inner(row, right) ==
    LET matching == SelectSeq(right.rows, LAMBDA r : r.product_id = row.product_id)
    IN  [k \in 1..Len(matching) |-> row @@ [unit_cost |-> Some(matching[k].unit_cost)]]

\* the rows a left row yields in left.merge(right, on='product_id', how='left'):
\* one per right row with its key, in the right frame's order, or the left row
\* alone with the right columns missing
MergedRows(row, right) ==
    LET matching == SelectSeq(right.rows, LAMBDA r : r.product_id = row.product_id)
    IN  IF matching = <<>>
        THEN <<row @@ [unit_cost |-> NULL]>>
        ELSE [k \in 1..Len(matching) |->
                 row @@ [unit_cost |-> Some(matching[k].unit_cost)]]

RECURSIVE MergeFrom(_, _, _)
MergeFrom(k, left, right) ==
    IF k > Len(left.rows) THEN <<>>
    ELSE MergedRows(left.rows[k], right) \o MergeFrom(k + 1, left, right)

\* df_sales.merge(df_products[['product_id', 'unit_cost']], on='product_id', how='left')
merge(left, right) ==
    DataFrame(left.columns \o <<"unit_cost">>, MergeFrom(1, left, right))

\* profit with the cost of one unit only
Profit_IgnoresQuantity(row, e) ==
    IF row.unit_cost = NULL THEN NULL
    ELSE Some(Round2(row.total_amount - row.unit_cost[1] + e))

\* (total_amount - quantity * unit_cost).round(2) of one row, e the
\* representation error; a missing unit_cost makes it missing
Profit(row, e) ==
    IF row.unit_cost = NULL THEN NULL
    ELSE Some(Round2(row.total_amount - row.quantity * row.unit_cost[1] + e))

\* the profit columns the first k rows may get, one representation error per row
RECURSIVE ProfitColumns(_, _)
ProfitColumns(rows, k) ==
    IF k = 0 THEN {<<>>}
    ELSE {Append(c, Profit(rows[k], e)) : c \in ProfitColumns(rows, k - 1), e \in FloatErr}

\* df_sales_with_cost with its profit column set
WithProfit(df, profit) ==
    DataFrame(df.columns \o <<"profit">>,
              [k \in 1..Len(df.rows) |-> df.rows[k] @@ [profit |-> profit[k]]])

FACT_COLUMNS ==
    <<"transaction_id", "customer_id", "product_id", "store_id", "date",
      "quantity", "unit_price", "total_amount", "profit">>

\* df_sales_with_cost before the profit column is added
SalesWithCost(df_sales, products) ==
    merge(df_sales, Columns(products, <<"product_id", "unit_cost">>))

\* df_sales_fact: the fact columns, date renamed
SalesFact(df_sales_with_cost, profit) ==
    Rename(Columns(WithProfit(df_sales_with_cost, profit), FACT_COLUMNS),
           "date", "sale_date")

LoadSales ==
    /\ lpc = "sales"
    /\ files.sales.exists
    /\ LET df_sales == read_csv(files.sales)
           df_sales_with_cost == SalesWithCost(df_sales, df_products)
       IN  \E profit \in ProfitColumns(df_sales_with_cost.rows,
                                        Len(df_sales_with_cost.rows)) :
              db' = [db EXCEPT
                       ![TableOf("sales")] = to_sql(@, SalesFact(df_sales_with_cost, profit))]
    /\ written' = Append(written, TableOf("sales"))
    /\ lpc' = "done"
    /\ okRuns' = Min(okRuns + 1, 2)
    /\ firstDb' = IF okRuns = 0 THEN db' ELSE firstDb
    /\ UNCHANGED <<cfg, rnd, gvars, files, df_products, db0>>

\* pd.read_csv of a file that is not there raises: the run ends at that step
MissingFile ==
    /\ Running
    /\ ~files[lpc].exists
    /\ lpc' = "aborted"
    /\ UNCHANGED <<cfg, rnd, gvars, files, df_products, db, db0, written, okRuns, firstDb>>

\* the columns of the frame a step writes
ColumnsOf(step) ==
    IF step = "sales"
    THEN Rename(DataFrame(FACT_COLUMNS, <<>>), "date", "sale_date").columns
    ELSE files[step].header

\* the connection or the write fails inside to_sql: the run ends at that step
WriteFault ==
    /\ Running
    /\ files[lpc].exists
    /\ \E t \in to_sql_failed(db[TableOf(lpc)], DataFrame(ColumnsOf(lpc), <<>>)) :
          db' = [db EXCEPT ![TableOf(lpc)] = t]
    /\ lpc' = "aborted"
    /\ UNCHANGED <<cfg, rnd, gvars, files, df_products, db0, written, okRuns, firstDb>>

----------------------------------------------------------------------------
(* Initial states *)

\* the configuration block of generate_data.py
Config(customers, products, stores, sales) ==
    [NUM_CUSTOMERS |-> customers, NUM_PRODUCTS |-> products,
     NUM_STORES |-> stores, NUM_SALES |-> sales]

SeqsUpTo(S, n) == UNION {[1..k -> S] : k \in 0..n}

NoFiles == [customers |-> NoFile, stores |-> NoFile, products |-> NoFile, sales |-> NoFile]

FACT_TABLE_COLUMNS == Rename(DataFrame(FACT_COLUMNS, <<>>), "date", "sale_date").columns

\* rows left in the tables by an earlier load of other data
StaleCustomer == CustomerRow(0, "Phoenix", 365)
StaleStore == StoreRow(0, "Houston", "West")
StaleProduct == ProductRow(0, "Toys", 20, 60000, 100000)
StaleFact ==
    [transaction_id |-> 0, customer_id |-> 0, product_id |-> 0, store_id |-> 0,
     sale_date |-> Strftime(START_DATE), quantity |-> 1, unit_price |-> 100000,
     total_amount |-> 100000, profit |-> Some(40000)]

AbsentDb ==
    [dim_customer |-> NoTable, dim_store |-> NoTable,
     dim_product |-> NoTable, sales_fact |-> NoTable]
EmptyDb ==
    [dim_customer |-> [exists |-> TRUE, columns |-> CUSTOMER_COLUMNS, rows |-> <<>>],
     dim_store    |-> [exists |-> TRUE, columns |-> STORE_COLUMNS, rows |-> <<>>],
     dim_product  |-> [exists |-> TRUE, columns |-> PRODUCT_COLUMNS, rows |-> <<>>],
     sales_fact   |-> [exists |-> TRUE, columns |-> FACT_TABLE_COLUMNS, rows |-> <<>>]]
StaleDb ==
    [dim_customer |-> [exists |-> TRUE, columns |-> CUSTOMER_COLUMNS,
                       rows |-> <<StaleCustomer>>],
     dim_store    |-> [exists |-> TRUE, columns |-> STORE_COLUMNS, rows |-> <<StaleStore>>],
     dim_product  |-> [exists |-> TRUE, columns |-> PRODUCT_COLUMNS,
                       rows |-> <<StaleProduct>>],
     sales_fact   |-> [exists |-> TRUE, columns |-> FACT_TABLE_COLUMNS,
                       rows |-> <<StaleFact>>]]

\* the destination before the first run: tables absent, empty or holding rows
PriorDbs == {AbsentDb, EmptyDb, StaleDb}

\* the part of the random source a specification explores
ThinSample ==
    [city |-> {"New York"}, signupDays |-> {0}, region |-> {"North"},
     category |-> {"Electronics", "Books"}, basePrice |-> {100000},
     factor |-> {15}, brand |-> {1}, saleDays |-> {0}, quantity |-> {2},
     txid |-> {100000}, customerId |-> {1}, storeId |-> {1}]

PriceSample ==
    [city |-> {"Chicago"}, signupDays |-> {365}, region |-> {"South"},
     category |-> {"Electronics", "Clothing", "Home & Garden"},
     basePrice |-> {50000 + 37 * k : k \in 0..149} \cup {2000000},
     factor |-> {5, 12, 15, 20}, brand |-> {20}, saleDays |-> {RangeDays},
     quantity |-> {5}, txid |-> {999999}, customerId |-> {1}, storeId |-> {1}]

SaleSample ==
    [city |-> {"Phoenix"}, signupDays |-> {180}, region |-> {"West"},
     category |-> {"Clothing", "Sports"}, basePrice |-> {123450},
     factor |-> {7}, brand |-> {1}, saleDays |-> {0, 304, 333, 334, RangeDays},
     quantity |-> 1..5, txid |-> {100000, 999999}, customerId |-> 1..2,
     storeId |-> 1..2]

InitIdle(c, r, f, d) ==
    /\ cfg = c
    /\ rnd = r
    /\ gpc = "idle"
    /\ customer_data = <<>>
    /\ store_data = <<>>
    /\ product_data = <<>>
    /\ sales_data = <<>>
    /\ files = f
    /\ lpc = "idle"
    /\ df_products = DataFrame(<<>>, <<>>)
    /\ db = d
    /\ db0 = d
    /\ written = <<>>
    /\ okRuns = 0
    /\ firstDb = AbsentDb

\* the pipeline end to end: a fresh checkout, any small configuration
Init ==
    \E c \in 1..MaxCustomers, p \in 1..MaxProducts, s \in 1..MaxStores, n \in 1..MaxSales,
       d \in {AbsentDb, StaleDb} :
       InitIdle(Config(c, p, s, n), ThinSample, NoFiles, d)

\* the Generator alone, on wider samples of the random source
InitGen ==
    \/ InitIdle(Config(1, 1, 1, 1), PriceSample, NoFiles, AbsentDb)
    \/ InitIdle(Config(2, 2, 2, 1), SaleSample, NoFiles, AbsentDb)

FilesOf(columns, rowsets) ==
    {NoFile} \cup {to_csv(DataFrame(columns, rows)) : rows \in rowsets}

\* files handed to the Loader, and the rows they may hold
CustomerFiles ==
    FilesOf(CUSTOMER_COLUMNS,
            {<<>>, <<CustomerRow(1, "New York", 0), CustomerRow(2, "Houston", 365)>>})
StoreFiles == FilesOf(STORE_COLUMNS, {<<StoreRow(1, "Chicago", "East")>>})
ProductRows ==
    {ProductRow(1, "Books", 3, 60000, 100000),
     ProductRow(2, "Electronics", 7, 153300, 255500),
     ProductRow(1, "Toys", 3, 70000, 116700)}
FileSaleRow(txid, customer_id, product_id, store_id, days, quantity, unit_price) ==
    [transaction_id |-> txid, customer_id |-> customer_id, product_id |-> product_id,
     store_id |-> store_id, date |-> Strftime(PlusDays(START_DATE, days)),
     quantity |-> quantity, unit_price |-> unit_price,
     total_amount |-> Round2(unit_price * quantity)]
SaleRows ==
    {FileSaleRow(100000, 1, 1, 1, 0, 2, 100000),
     FileSaleRow(999999, 1, 2, 1, RangeDays, 5, 116700),
     FileSaleRow(100000, 2, 3, 1, 304, 1, 255500)}

\* the Loader alone, on any files and any destination
InitLoad ==
    \E c \in CustomerFiles,
       s \in StoreFiles,
       p \in FilesOf(PRODUCT_COLUMNS, SeqsUpTo(ProductRows, MaxProducts)),
       n \in FilesOf(SALES_COLUMNS, SeqsUpTo(SaleRows, MaxSales)),
       d \in PriorDbs :
       InitIdle(Config(500, 200, 10, 10000), ThinSample,
                [customers |-> c, stores |-> s, products |-> p, sales |-> n], d)

----------------------------------------------------------------------------
(* Specifications *)

NextGen ==
    \/ GenStart
    \/ GenCustomer
    \/ WriteCustomers
    \/ GenStore
    \/ WriteStores
    \/ GenProduct
    \/ WriteProducts
    \/ GenSale
    \/ WriteSales

NextLoad ==
    \/ LoaderStart
    \/ LoadCustomers
    \/ LoadStores
    \/ LoadProducts
    \/ LoadSales
    \/ MissingFile
    \/ WriteFault

Next == NextGen \/ NextLoad

Spec == Init /\ [][Next]_vars
SpecGen == InitGen /\ [][NextGen]_vars
SpecLoad == InitLoad /\ [][NextLoad]_vars

----------------------------------------------------------------------------
(* Properties *)

SaleFile == files.sales.rows
ProductFile == files.products.rows
Fact == db.sales_fact.rows

\* the rows of the products file with the product_id of a sale row
Matching(sale) == {j \in 1..Len(ProductFile) : ProductFile[j].product_id = sale.product_id}

\* a fact row carries the columns of a sale row, date under the name sale_date
DerivedFrom(fact, sale) ==
    /\ DOMAIN fact = {"transaction_id", "customer_id", "product_id", "store_id",
                      "sale_date", "quantity", "unit_price", "total_amount", "profit"}
    /\ fact.transaction_id = sale.transaction_id
    /\ fact.customer_id = sale.customer_id
    /\ fact.product_id = sale.product_id
    /\ fact.store_id = sale.store_id
    /\ fact.sale_date = sale.date
    /\ fact.quantity = sale.quantity
    /\ fact.unit_price = sale.unit_price
    /\ fact.total_amount = sale.total_amount

\* x is the value with two decimals nearest to y
Rounded2(x, y) == x % 100 = 0 /\ Abs(x - y) <= 50

\* a table holds exactly the rows of a file
Holds(table, file) ==
    table.exists /\ table.columns = file.header /\ table.rows = file.rows

RECURSIVE JoinedCount(_)
JoinedCount(k) ==
    IF k = 0 THEN 0
    ELSE JoinedCount(k - 1)
           + (IF Matching(SaleFile[k]) = {} THEN 1 ELSE Cardinality(Matching(SaleFile[k])))

\* C1: a second Loader run in succession on the same unchanged files leaves the
\* four tables exactly as the first run left them
C1_Idempotent == (lpc = "done" /\ okRuns = 2) => db = firstDb

C1_Witness ==
    /\ lpc = "done" /\ okRuns = 2
    /\ db0 = firstDb
    /\ Len(Fact) > 0
    /\ Len(db.dim_customer.rows) > 0

\* C2: after a completed run, whatever the destination held before, the three
\* dimension tables hold exactly the rows of their files and sales_fact holds
\* exactly the rows derived from the sales file: every write replaces
C2_Replace ==
    lpc = "done" =>
        /\ Holds(db.dim_customer, files.customers)
        /\ Holds(db.dim_store, files.stores)
        /\ Holds(db.dim_product, files.products)
        /\ db.sales_fact.exists
        /\ Len(Fact) = JoinedCount(Len(SaleFile))
        /\ \A k \in 1..Len(Fact) : \E i \in 1..Len(SaleFile) : DerivedFrom(Fact[k], SaleFile[i])
        /\ \A i \in 1..Len(SaleFile) : \E k \in 1..Len(Fact) : DerivedFrom(Fact[k], SaleFile[i])

C2_Witness ==
    /\ lpc = "done"
    /\ db0 = StaleDb
    /\ Len(SaleFile) > 0
    /\ Len(ProductFile) > 0
    /\ Len(files.customers.rows) > 0

\* C3: a sale row whose product_id is in no row of the products file does not
\* stop the load, and is written to sales_fact with a missing profit
C3_UnmatchedKept ==
    lpc = "done" =>
        \A i \in 1..Len(SaleFile) :
            Matching(SaleFile[i]) = {} =>
                \E k \in 1..Len(Fact) :
                    DerivedFrom(Fact[k], SaleFile[i]) /\ Fact[k].profit = NULL

C3_Witness ==
    /\ lpc = "done"
    /\ Len(ProductFile) > 0
    /\ \E i, j \in 1..Len(SaleFile) :
          Matching(SaleFile[i]) = {} /\ Matching(SaleFile[j]) # {}

\* C4: a sale row whose product_id is in the products file is written with
\* profit = total_amount - quantity * unit_cost of that product, to two
\* decimals, its other columns unchanged and date named sale_date; no other
\* profit is written
C4_Profit ==
    lpc = "done" =>
        /\ \A i \in 1..Len(SaleFile) : \A j \in Matching(SaleFile[i]) :
              \E k \in 1..Len(Fact) :
                  /\ DerivedFrom(Fact[k], SaleFile[i])
                  /\ Fact[k].profit # NULL
                  /\ Rounded2(Fact[k].profit[1],
                              SaleFile[i].total_amount
                                - SaleFile[i].quantity * ProductFile[j].unit_cost)
        /\ \A k \in 1..Len(Fact) :
              Fact[k].profit # NULL =>
                  \E i \in 1..Len(SaleFile) : \E j \in Matching(SaleFile[i]) :
                      /\ DerivedFrom(Fact[k], SaleFile[i])
                      /\ Rounded2(Fact[k].profit[1],
                                  SaleFile[i].total_amount
                                    - SaleFile[i].quantity * ProductFile[j].unit_cost)

C4_Witness ==
    /\ lpc = "done"
    /\ db0.dim_product.rows # ProductFile
    /\ \E i \in 1..Len(SaleFile) :
          /\ SaleFile[i].quantity > 1
          /\ Cardinality(Matching(SaleFile[i])) = 1
          /\ \E k \in 1..Len(Fact) :
                DerivedFrom(Fact[k], SaleFile[i]) /\ Fact[k].profit # NULL

C6_TotalAmount ==
    gpc = "done" =>
        \A i \in 1..Len(SaleFile) :
            Rounded2(SaleFile[i].total_amount, SaleFile[i].unit_price * SaleFile[i].quantity)

C6_Witness ==
    /\ gpc = "done"
    /\ \E i \in 1..Len(SaleFile) :
          SaleFile[i].quantity = 5 /\ SaleFile[i].unit_price % 10000 # 0

\* C7: in every generated product row unit_cost is within 0.01 of
\* 0.6 * unit_price, whatever the category
C7_CostRatio ==
    \A i \in 1..Len(product_data) :
        Abs(10 * product_data[i].unit_cost - 6 * product_data[i].unit_price) <= 1000

C7_Witness ==
    /\ \E i \in 1..Len(product_data) :
          /\ product_data[i].category = "Electronics"
          /\ Abs(10 * product_data[i].unit_cost - 6 * product_data[i].unit_price) >= 700
    /\ gpc = "done"
    /\ files.products.rows = product_data

\* C8: customer_id, store_id and product_id count 1, 2, ..., N in row order
C8_Ids ==
    /\ \A k \in 1..Len(customer_data) : customer_data[k].customer_id = k
    /\ \A k \in 1..Len(store_data) : store_data[k].store_id = k
    /\ \A k \in 1..Len(product_data) : product_data[k].product_id = k
    /\ gpc = "done" =>
          /\ Len(files.customers.rows) = cfg.NUM_CUSTOMERS
          /\ Len(files.stores.rows) = cfg.NUM_STORES
          /\ Len(files.products.rows) = cfg.NUM_PRODUCTS
          /\ \A k \in 1..cfg.NUM_CUSTOMERS : files.customers.rows[k].customer_id = k
          /\ \A k \in 1..cfg.NUM_STORES : files.stores.rows[k].store_id = k
          /\ \A k \in 1..cfg.NUM_PRODUCTS : files.products.rows[k].product_id = k

C8_Witness ==
    /\ gpc = "done"
    /\ cfg.NUM_CUSTOMERS >= 2 /\ cfg.NUM_STORES >= 2 /\ cfg.NUM_PRODUCTS >= 2

\* the table of the step a run stopped at, and the new contents of a table
Expected(t) ==
    IF t = "dim_customer" THEN files.customers
    ELSE IF t = "dim_store" THEN files.stores
    ELSE files.products

Replaced(t) ==
    IF t = "sales_fact"
    THEN db[t].exists /\ Len(db[t].rows) = JoinedCount(Len(SaleFile))
    ELSE Holds(db[t], Expected(t))

C10_Independent ==
    /\ \A i \in 1..Len(sales_data) :
          \E q \in 1..Len(product_data) :
              sales_data[i].unit_price = product_data[q].unit_price
    /\ (gpc = "sales" /\ Len(sales_data) < cfg.NUM_SALES) =>
          \A p, q \in 1..cfg.NUM_PRODUCTS :
              ENABLED (/\ GenSale
                       /\ sales_data'[Len(sales_data')].product_id = p
                       /\ sales_data'[Len(sales_data')].unit_price
                            = product_data[q].unit_price)

C10_Witness ==
    /\ gpc = "done"
    /\ \E i \in 1..Len(SaleFile) :
          SaleFile[i].unit_price # product_data[SaleFile[i].product_id].unit_price
====
